---------------------------- MODULE Spec2Model ----------------------------
(***************************************************************************)
(* A model of the firstrade client: FTSession (account.py), the login      *)
(* protocol against the session-status, login and PIN endpoints with the   *)
(* cookie file cookies.pkl, and Order (order.py): the order form and the   *)
(* parsing of the order response into the retained confirmation, the       *)
(* cancellation and the status listing.                                    *)
(*                                                                         *)
(* Python str values are TLA+ strings; str.find, slicing and str.strip are *)
(* computed as Python computes them.  A dict is a function whose DOMAIN is *)
(* its key set.                                                            *)
(***************************************************************************)
EXTENDS Integers, Sequences, FiniteSets, TLC

VARIABLES
    \* ---- FTSession (account.py)
    pc,                  \* position of the running FTSession(...) call
    persistent_session,  \* self.persistent_session
    store,               \* the file cookies.pkl
    store_before,        \* history: cookies.pkl when the running call started
    loaded,              \* login's local `cookies`
    jar,                 \* self.session.cookies
    self_cookies,        \* self.cookies: its own {} or the session's jar
    log,                 \* history: HTTP exchanges of the running call
    err,                 \* the exception the call ended with, or "none"
    \* ---- Order (order.py)
    opc,                 \* position of the running Order method
    order_confirmation,  \* self.order_confirmation
    confirmation_before, \* history: self.order_confirmation when the last call began
    request,             \* the form of the last POST to the order endpoint
    call,                \* the arguments of the last place_order call
    response,            \* history: the response that call parsed
    oerr,                \* the exception the last Order call ended with
    false_passed,        \* history: some call passed dry_run=False
    live_posted,         \* history: some order form went out with no preview flag
    query,               \* the last call if cancel_order or get_orders_status
    posts,               \* history: the requests that call issued
    page,                \* history: the response body that call received
    statuses             \* what the last get_orders_status returned

svars == <<pc, persistent_session, store, store_before, loaded, jar,
           self_cookies, log, err>>
qvars == <<query, posts, page, statuses>>
ovars == <<opc, order_confirmation, confirmation_before, request, call,
           response, oerr, false_passed, live_posted, qvars>>
vars == <<svars, ovars>>

-----------------------------------------------------------------------------
(* Python str operations *)

Max(a, b) == IF a > b THEN a ELSE b
Min(a, b) == IF a < b THEN a ELSE b

\* s[i:i+len(sub)] == sub, i a 0-based offset
OccursAt(s, sub, i) ==
    /\ i >= 0
    /\ i + Len(sub) <= Len(s)
    /\ SubSeq(s, i + 1, i + Len(sub)) = sub

\* str.find(sub, start): the lowest offset >= start where sub occurs, else -1
\* (s is scanned upwards from `start`, sixteen offsets at a time)
RECURSIVE Find(_, _, _)
Find(s, sub, start) ==
    LET last == Min(start + 15, Len(s) - Len(sub))
    IN  IF start > Len(s) - Len(sub) THEN -1
        ELSE IF \E i \in start..last : OccursAt(s, sub, i)
        THEN CHOOSE i \in start..last :
                /\ OccursAt(s, sub, i)
                /\ \A k \in start..(i - 1) : ~OccursAt(s, sub, k)
        ELSE Find(s, sub, last + 1)

\* `sub in s`
Contains(s, sub) == Find(s, sub, 0) # -1

\* a slice bound as Python normalises it: negative counts from the end,
\* then clamped to 0..len
SliceBound(s, i) ==
    IF i < 0 THEN Max(i + Len(s), 0) ELSE Min(i, Len(s))

\* s[a:b]
Slice(s, a, b) == SubSeq(s, SliceBound(s, a) + 1, SliceBound(s, b))

Whitespace == {" ", "\t", "\n"}

RECURSIVE LStrip(_)
LStrip(s) ==
    IF Len(s) > 0 /\ SubSeq(s, 1, 1) \in Whitespace THEN LStrip(Tail(s)) ELSE s

RECURSIVE RStrip(_)
RStrip(s) ==
    IF Len(s) > 0 /\ SubSeq(s, Len(s), Len(s)) \in Whitespace
    THEN RStrip(SubSeq(s, 1, Len(s) - 1))
    ELSE s

\* str.strip()
Strip(s) == RStrip(LStrip(s))

-----------------------------------------------------------------------------
(* FTSession: cookies *)

NoCookie == "<unset>"
CookieNames == {"sid"}
CookieVals == {"a", "b"}

\* a dict of cookies name -> value; NoCookie marks a name the dict lacks
Dicts == [CookieNames -> CookieVals \cup {NoCookie}]
EmptyDict == [n \in CookieNames |-> NoCookie]

\* cookies.pkl: missing, not a pickle, or a pickled dict
Absent == [kind |-> "absent"]
Corrupt == [kind |-> "corrupt"]
Pickled(d) == [kind |-> "pickle", dict |-> d]
Stores == {Absent, Corrupt} \cup {Pickled(d) : d \in Dicts}

\* A RequestsCookieJar keys its cookies by (domain, path, name).  Cookies
\* made by cookiejar_from_dict carry the empty domain (`local`); cookies a
\* response sets carry the site's domain (`site`).
Jars == [local : Dicts, site : Dicts]
EmptyJar == [local |-> EmptyDict, site |-> EmptyDict]

\* dict.update / jar.update: the entries of `more` replace those of `d`
Update(d, more) ==
    [n \in CookieNames |-> IF more[n] # NoCookie THEN more[n] ELSE d[n]]

\* RequestsCookieJar.get_dict(): name -> value over the jar's cookies in
\* iteration order, the domains in insertion order (the empty domain was
\* inserted first), a later cookie replacing an earlier one of its name
GetDict(j) == Update(j.local, j.site)

\* the session's jar after a response that sets the cookies `setc`
Receive(j, setc) == [j EXCEPT !.site = Update(@, setc)]

-----------------------------------------------------------------------------
(* FTSession: the HTTP exchanges *)

Sentinel == "/cgi-bin/sessionfailed?reason=6"

\* bodies the session-status endpoint may answer with
ProbeTexts ==
    { "<response><status>ok</status></response>",
      "/cgi-bin/sessionfailed?reason=6",
      "<a href=\"/cgi-bin/sessionfailed?reason=6\">login</a>",
      "/cgi-bin/sessionfailed?reason=1" }

\* the body of a response the code does not read
Unread == "<unread>"

Exchange(method, url, cookies, text) ==
    [method |-> method, url |-> url, cookies |-> cookies, text |-> text]

\* the calls of login, each with what it passes as `cookies=`
ProbeRequest(text) == Exchange("GET", "get_xml", "loaded", text)
LoginPageRequest == Exchange("GET", "login", "none", Unread)
LoginPostRequest == Exchange("POST", "login", "session", Unread)
PinPostRequest == Exchange("POST", "pin", "session", Unread)

\* cookiejar_from_dict(cookies): cookies of the empty domain
CookiejarFromDict(d) == [local |-> d, site |-> EmptyDict]

\* faulty variant: the cookies passed with the request replace the session's
MergeCookies_ArgumentOnly(j, more) == more

\* Session.prepare_request: the Cookie header is built from the session's jar
\* with the jar passed as `cookies=` set over it, cookie by cookie
MergeCookies(j, more) ==
    [local |-> Update(j.local, more.local), site |-> Update(j.site, more.site)]

\* the jar passed as `cookies=` by a call of login
CookiesArgument(req) ==
    CASE req.cookies = "loaded" -> CookiejarFromDict(loaded)
      [] req.cookies = "session" -> jar
      [] OTHER -> EmptyJar

\* the exchange as it goes over the wire: `sent` the cookies its Cookie
\* header is built from, `set` the cookies its response sets
Send(req, setc) ==
    [method |-> req.method, url |-> req.url, cookies |-> req.cookies,
     text |-> req.text, sent |-> MergeCookies(jar, CookiesArgument(req)),
     set |-> setc]


\* `"/cgi-bin/sessionfailed?reason=6" in response.text`
SessionFailed(text) == Contains(text, Sentinel)

\* faulty variant: the login form is requested whatever the first probe says
AfterFirstProbe_AlwaysLogin(text) == "login_page"

\* login after the first probe: the login form, or straight to the re-probe
AfterFirstProbe(text) == IF SessionFailed(text) THEN "login_page" ELSE "reprobe"

\* faulty variant: the re-probe's body is not looked at
AfterReprobe_NeverRaises(text) == "done"

\* login after the re-probe: raise, or return to __init__ and the caller
AfterReprobe(text) == IF SessionFailed(text) THEN "raised" ELSE "done"

\* load_cookies: the pickled dict, {} when the file is missing
LoadCookies(file) == IF file = Absent THEN EmptyDict ELSE file.dict

\* save_cookies: the file after pickle.dump(self.session.cookies.get_dict())
SaveCookies(j) == Pickled(GetDict(j))

\* faulty variant: the cookies are saved whatever the flag
StoreAfterPin_IgnoresFlag(persistent, file, j) == SaveCookies(j)

\* `if self.persistent_session: self.save_cookies()`
StoreAfterPin(persistent, file, j) ==
    IF persistent THEN SaveCookies(j) ELSE file

-----------------------------------------------------------------------------
(* FTSession: the steps of FTSession(...), one per statement that blocks *)

SessionInit ==
    /\ pc = "new"
    /\ persistent_session = FALSE
    /\ store \in Stores
    /\ store_before = store
    /\ loaded = EmptyDict
    /\ jar = EmptyJar
    /\ self_cookies = "own"
    /\ log = <<>>
    /\ err = "none"
    \* no Order exists yet
    /\ opc = "idle"
    /\ order_confirmation = <<>>
    /\ confirmation_before = <<>>
    /\ request = <<>>
    /\ call = <<>>
    /\ response = <<>>
    /\ oerr = "none"
    /\ false_passed = FALSE
    /\ live_posted = FALSE
    /\ query = <<>>
    /\ posts = <<>>
    /\ page = <<>>
    /\ statuses = <<>>

\* the call ends with an exception: nothing is returned to the caller
Raise(e) ==
    /\ pc' = "raised"
    /\ err' = e

\* __init__ up to the call of login; a program may construct a session again
\* once the previous construction has ended
Construct ==
    /\ pc \in {"new", "done", "raised"}
    /\ \E persistent \in BOOLEAN : persistent_session' = persistent
    /\ pc' = "load"
    /\ store_before' = store
    /\ loaded' = EmptyDict
    /\ jar' = EmptyJar
    /\ self_cookies' = "own"
    /\ log' = <<>>
    /\ err' = "none"
    /\ UNCHANGED store
    /\ UNCHANGED ovars

\* cookies = self.load_cookies(); self.session.cookies.update(cookies)
\* pickle.load of a file that is no pickle raises; only FileNotFoundError is caught
Load ==
    /\ pc = "load"
    /\ IF store = Corrupt
       THEN /\ Raise("unpickle")
            /\ UNCHANGED <<loaded, jar>>
       ELSE /\ loaded' = LoadCookies(store)
            /\ jar' = [jar EXCEPT !.local = Update(@, LoadCookies(store))]
            /\ pc' = "probe"
            /\ UNCHANGED err
    /\ UNCHANGED <<persistent_session, store, store_before, self_cookies, log>>
    /\ UNCHANGED ovars

\* a request that ends with a transport error: it propagates out of login
TransportError(at, req) ==
    /\ pc = at
    /\ log' = Append(log, Send(req, EmptyDict))
    /\ Raise("transport")
    /\ UNCHANGED <<persistent_session, store, store_before, loaded, jar, self_cookies>>
    /\ UNCHANGED ovars

\* the first GET of the session-status endpoint and the branch on its body
Probe ==
    /\ pc = "probe"
    /\ \E text \in ProbeTexts, setc \in Dicts :
         /\ log' = Append(log, Send(ProbeRequest(text), setc))
         /\ jar' = Receive(jar, setc)
         /\ pc' = AfterFirstProbe(text)
    /\ UNCHANGED <<persistent_session, store, store_before, loaded, self_cookies, err>>
    /\ UNCHANGED ovars

\* self.session.get(url=urls.login(), ...)
LoginPage ==
    /\ pc = "login_page"
    /\ \E setc \in Dicts :
         /\ log' = Append(log, Send(LoginPageRequest, setc))
         /\ jar' = Receive(jar, setc)
    /\ pc' = "login_post"
    /\ UNCHANGED <<persistent_session, store, store_before, loaded, self_cookies, err>>
    /\ UNCHANGED ovars

\* faulty variant: the PIN is never posted
LoginPost_SkipsPin ==
    /\ pc = "login_post"
    /\ \E setc \in Dicts :
         /\ log' = Append(log, Send(LoginPostRequest, setc))
         /\ jar' = Receive(jar, setc)
    /\ pc' = "reprobe"
    /\ UNCHANGED <<persistent_session, store, store_before, loaded, self_cookies, err>>
    /\ UNCHANGED ovars

\* self.session.post(url=urls.login(), ..., data={username, password, ...})
LoginPost ==
    /\ pc = "login_post"
    /\ \E setc \in Dicts :
         /\ log' = Append(log, Send(LoginPostRequest, setc))
         /\ jar' = Receive(jar, setc)
    /\ pc' = "pin_post"
    /\ UNCHANGED <<persistent_session, store, store_before, loaded, self_cookies, err>>
    /\ UNCHANGED ovars

\* self.session.post(url=urls.pin(), ..., data={pin, ...}), then the save
PinPost ==
    /\ pc = "pin_post"
    /\ \E setc \in Dicts :
         /\ log' = Append(log, Send(PinPostRequest, setc))
         /\ jar' = Receive(jar, setc)
         /\ store' = StoreAfterPin(persistent_session, store, Receive(jar, setc))
    /\ pc' = "reprobe"
    /\ UNCHANGED <<persistent_session, store_before, loaded, self_cookies, err>>
    /\ UNCHANGED ovars

\* self.cookies = self.session.cookies; the second GET of the session-status
\* endpoint; the raise on its body
Reprobe ==
    /\ pc = "reprobe"
    /\ self_cookies' = "jar"
    /\ \E text \in ProbeTexts, setc \in Dicts :
         /\ log' = Append(log, Send(ProbeRequest(text), setc))
         /\ jar' = Receive(jar, setc)
         /\ pc' = AfterReprobe(text)
         /\ err' = IF AfterReprobe(text) = "raised" THEN "auth" ELSE "none"
    /\ UNCHANGED <<persistent_session, store, store_before, loaded>>
    /\ UNCHANGED ovars

\* the request of each step may fail in the transport instead
ProbeFails == TransportError("probe", ProbeRequest(Unread))
LoginPageFails == TransportError("login_page", LoginPageRequest)
LoginPostFails == TransportError("login_post", LoginPostRequest)
PinPostFails == TransportError("pin_post", PinPostRequest)
\* line 68 has run when the re-probe's request fails
ReprobeFails ==
    /\ pc = "reprobe"
    /\ self_cookies' = "jar"
    /\ log' = Append(log, Send(ProbeRequest(Unread), EmptyDict))
    /\ Raise("transport")
    /\ UNCHANGED <<persistent_session, store, store_before, loaded, jar>>
    /\ UNCHANGED ovars

-----------------------------------------------------------------------------
(* Order: the enumerations and the order form *)

LIMIT == "2"
MARKET == "1"
STOP == "3"
STOP_LIMIT == "4"
TRAILING_STOP_DOLLAR == "5"
TRAILING_STOP_PERCENT == "6"
PriceType ==
    {LIMIT, MARKET, STOP, STOP_LIMIT, TRAILING_STOP_DOLLAR, TRAILING_STOP_PERCENT}

DAY == "0"
GT90 == "1"
PRE_MARKET == "A"
AFTER_MARKET == "P"
DAY_EXT == "D"
Duration == {DAY, GT90, PRE_MARKET, AFTER_MARKET, DAY_EXT}

BUY == "B"
SELL == "S"
SELL_SHORT == "SS"
BUY_TO_COVER == "BC"
OrderType == {BUY, SELL, SELL_SHORT, BUY_TO_COVER}

\* An optional argument is <<>> when the caller omits it and <<v>> when the
\* caller passes v; the signature's default fills an omitted one.
Omitted == <<>>
Passed(v) == <<v>>
Default(arg, default) == IF arg = Omitted THEN default ELSE arg[1]

\* price=0.00 and dry_run=True of place_order's signature; a price is
\* written as the form encodes it
DefaultPrice == "0.0"
DefaultDryRun == TRUE

\* faulty variant: the preview flag is left empty
PreviewOrders_AlwaysLive(dry_run) == ""

\* `if dry_run: previewOrders = "1" else: previewOrders = ""`
PreviewOrders(dry_run) == IF dry_run THEN "1" ELSE ""

\* faulty variant: the price of a market order is not cleared
LimitPrice_KeepsPrice(price_type, price) == price

\* `if price_type == PriceType.MARKET: price = ""`
LimitPrice(price_type, price) == IF price_type = MARKET THEN "" ELSE price

\* the dict `data` that place_order posts
OrderForm(account, symbol, price_type, order_type, quantity, duration, price, dry_run) ==
    [ submiturl |-> "/cgi-bin/orderbar",
      orderbar_clordid |-> "",
      orderbar_accountid |-> "",
      stockorderpage |-> "yes",
      submitOrders |-> "1",
      previewOrders |-> PreviewOrders(dry_run),
      lotMethod |-> "1",
      accountType |-> "1",
      quoteprice |-> "",
      viewederror |-> "",
      stocksubmittedcompanyname1 |-> "",
      accountId |-> account,
      transactionType |-> order_type,
      quantity |-> quantity,
      symbol |-> symbol,
      priceType |-> price_type,
      limitPrice |-> LimitPrice(price_type, price),
      duration |-> duration,
      qualifier |-> "0",
      cond_symbol0_0 |-> "",
      cond_type0_0 |-> "2",
      cond_compare_type0_0 |-> "2",
      cond_compare_value0_0 |-> "",
      cond_and_or0 |-> "1",
      cond_symbol0_1 |-> "",
      cond_type0_1 |-> "2",
      cond_compare_type0_1 |-> "2",
      cond_compare_value0_1 |-> "" ]

\* the arguments of one place_order call
OrderArgs(accounts, symbols, price_types, order_types, quantities, durations, prices, dry_runs) ==
    [ account : accounts, symbol : symbols, price_type : price_types,
      order_type : order_types, quantity : quantities, duration : durations,
      price : prices, dry_run : dry_runs ]

-----------------------------------------------------------------------------
(* Order: the response and its parsing *)

\* The body of the order endpoint's response, as BeautifulSoup(text, "xml")
\* presents it to place_order: for each of the three tags, <<>> when
\* find(tag) is None and <<text>> when the tag is there with that text.
NoTag == <<>>
Tag(text) == <<text>>

\* dict[k] = v
Put(d, k, v) == (k :> v) @@ d
EmptyConfirmation == <<>>

\* find_all(tag) on the table fragment, then get_text() of each: the texts
\* of the <tag>...</tag> cells in document order (cells hold plain text; a
\* cell left open runs to the end of the fragment)
RECURSIVE FindAll(_, _, _)
FindAll(s, tag, from) ==
    LET open == "<" \o tag \o ">"
        close == "</" \o tag \o ">"
        i == Find(s, open, from)
        j == Find(s, close, i + Len(open))
    IN  IF i = -1 THEN <<>>
        ELSE IF j = -1 THEN <<Slice(s, i + Len(open), Len(s))>>
        ELSE <<Slice(s, i + Len(open), j)>> \o FindAll(s, tag, j + Len(close))

\* table_data = action_data[table_start:table_end]
TableData(action_data) ==
    LET table_start == Find(action_data, "<table", 0)
        table_end == Find(action_data, "</table>", 0) + Len("</table>")
    IN  Slice(action_data, table_start, table_end)

\* the outcome of a parsing step: the dict built so far, or the exception
Built(conf) == [raised |-> "none", conf |-> conf]
Raised(e) == [raised |-> e, conf |-> EmptyConfirmation]

\* faulty variant: the data cells are paired with the headers from the far end
RECURSIVE AssignCells_Reversed(_, _, _, _)
AssignCells_Reversed(conf, titles, data, i) ==
    IF i > Len(titles) THEN Built(conf)
    ELSE IF i > Len(data) THEN Raised("IndexError")
    ELSE AssignCells_Reversed(Put(conf, titles[i], data[Len(data) + 1 - i]),
                              titles, data, i + 1)

\* `for i, title in enumerate(titles): order_confirmation[title] = data[i]`
RECURSIVE AssignCells(_, _, _, _)
AssignCells(conf, titles, data, i) ==
    IF i > Len(titles) THEN Built(conf)
    ELSE IF i > Len(data) THEN Raised("IndexError")
    ELSE AssignCells(Put(conf, titles[i], data[i]), titles, data, i + 1)

RefMarker == "Your order reference number is: "
RefEnd == "</div>"
IdMarker == "id=\""
IdEnd == "\" style="

\* the text from after the first `marker` to the next `terminator`
Between(action_data, marker, terminator) ==
    LET start_index == Find(action_data, marker, 0) + Len(marker)
        end_index == Find(action_data, terminator, start_index)
    IN  Slice(action_data, start_index, end_index)

\* faulty variant: each mode reads the other mode's marker
OrderNumber_ModesSwapped(action_data, dry_run) ==
    IF dry_run
    THEN Between(action_data, RefMarker, RefEnd)
    ELSE Between(action_data, IdMarker, IdEnd)

\* `if not dry_run: ... else: ...`: the order number
OrderNumber(action_data, dry_run) ==
    IF ~dry_run
    THEN Between(action_data, RefMarker, RefEnd)
    ELSE Between(action_data, IdMarker, IdEnd)

\* faulty variant: every response is parsed as an accepted order
Accepted_Always(order_success) == TRUE

\* faulty variant: only "Yes" is parsed as an accepted order
Accepted_OnlyYes(order_success) == order_success = "Yes"

\* the branch `if order_success != "No"`
Accepted(order_success) == order_success # "No"

\* faulty variant: a response without <errcode> yields a record without errcode
BuildConfirmation_ToleratesNoErrcode(resp, dry_run) ==
    IF resp.success = NoTag THEN Raised("AttributeError")
    ELSE
    LET order_success == Strip(resp.success[1])
        c1 == Put(EmptyConfirmation, "success", order_success)
    IN  IF resp.actiondata = NoTag THEN Raised("AttributeError")
        ELSE
        LET action_data == Strip(resp.actiondata[1])
            table_data == TableData(action_data)
            cells == AssignCells(c1, FindAll(table_data, "th", 0),
                                 FindAll(table_data, "td", 0), 1)
            c2 == IF Accepted(order_success)
                  THEN IF cells.raised # "none" THEN cells
                       ELSE Built(Put(cells.conf, "orderid",
                                      OrderNumber(action_data, dry_run)))
                  ELSE Built(Put(c1, "actiondata", action_data))
        IN  IF c2.raised # "none" THEN c2
            ELSE IF resp.errcode = NoTag THEN c2
            ELSE Built(Put(c2.conf, "errcode", Strip(resp.errcode[1])))

\* the lines of place_order from `order_confirmation = {}` to the last
\* assignment to the local dict
BuildConfirmation(resp, dry_run) ==
    IF resp.success = NoTag THEN Raised("AttributeError")
    ELSE
    LET order_success == Strip(resp.success[1])
        c1 == Put(EmptyConfirmation, "success", order_success)
    IN  IF resp.actiondata = NoTag THEN Raised("AttributeError")
        ELSE
        LET action_data == Strip(resp.actiondata[1])
            table_data == TableData(action_data)
            cells == AssignCells(c1, FindAll(table_data, "th", 0),
                                 FindAll(table_data, "td", 0), 1)
            c2 == IF Accepted(order_success)
                  THEN IF cells.raised # "none" THEN cells
                       ELSE Built(Put(cells.conf, "orderid",
                                      OrderNumber(action_data, dry_run)))
                  ELSE Built(Put(c1, "actiondata", action_data))
        IN  IF c2.raised # "none" THEN c2
            ELSE IF resp.errcode = NoTag THEN Raised("AttributeError")
            ELSE Built(Put(c2.conf, "errcode", Strip(resp.errcode[1])))

-----------------------------------------------------------------------------
(* Order: the inputs the model draws *)

MaxCells == 2

SeqsUpTo(S, n) == UNION {[1..k -> S] : k \in 0..n}

RECURSIVE Join(_)
Join(texts) == IF texts = <<>> THEN "" ELSE Head(texts) \o Join(Tail(texts))

\* header texts a response's table may carry: two plain column names and
\* three that are also keys place_order sets itself
HeaderNames == {"H1", "H2", "orderid", "success", "actiondata"}
CellValues == <<"V1", "V2", "V3", "V4">>

Cell(tag, text) == "<" \o tag \o ">" \o text \o "</" \o tag \o ">"

\* a table of one header row and one data row of n cells
Table(headers, n) ==
    "<table><tr>"
    \o Join([i \in 1..Len(headers) |-> Cell("th", headers[i])])
    \o "</tr><tr>"
    \o Join([i \in 1..n |-> Cell("td", CellValues[i])])
    \o "</tr></table>"

\* every header row of up to MaxCells cells, with as many data cells or one
\* fewer
Tables ==
    UNION { { Table(h, n) : n \in {Len(h), Len(h) - 1} \cap Nat }
            : h \in SeqsUpTo(HeaderNames, MaxCells) }

RefFragment == "<div>Your order reference number is: 12345</div>"
IdFragment == "<div id=\"67890\" style=\"float:left\">preview</div>"

\* no order-id marker, one of them, or both in either order
Markers ==
    {"", RefFragment, IdFragment, RefFragment \o IdFragment, IdFragment \o RefFragment}

\* leading and trailing whitespace around the action text
Pads == { <<"", "">>, <<" ", "\n">> }

\* <actiondata> texts: every table followed by both markers, and every
\* arrangement of the markers, padded or not, with or without a table
ActionTexts ==
    { t \o RefFragment \o IdFragment : t \in Tables }
    \cup { p[1] \o t \o m \o p[2] :
             p \in Pads, t \in {"", Table(<<"H1", "H2">>, 2)}, m \in Markers }

SuccessTexts == {"Yes", "No", " No\n", "no", ""}
ErrcodeTexts == {"0", " 1003\n"}

OptionalTag(texts) == {NoTag} \cup {Tag(t) : t \in texts}

\* the action text of a plain accepted order
PlainText == Table(<<"H1", "H2">>, 2) \o RefFragment \o IdFragment

\* the responses the order endpoint may give: every <success> and <errcode>,
\* there or not, around a plain action text or none; every action text in an
\* accepted and in a rejected response; and a body with a short data row and
\* no <errcode>
Responses ==
    [ success : OptionalTag(SuccessTexts),
      actiondata : OptionalTag({PlainText}),
      errcode : OptionalTag(ErrcodeTexts) ]
    \cup [ success : {Tag("Yes"), Tag("No")},
           actiondata : {Tag(t) : t \in ActionTexts},
           errcode : {Tag("0")} ]
    \cup { [ success |-> Tag("Yes"),
             actiondata |-> Tag(Table(<<"H1", "H2">>, 1)),
             errcode |-> NoTag ] }

\* a few of them: an accepted order, a rejected one, a body without <success>
FewResponses ==
    { r \in Responses :
        /\ r.success \in {Tag("Yes"), Tag("No"), NoTag}
        /\ r.actiondata = Tag(PlainText)
        /\ r.errcode = Tag("0") }

Accounts == {"12345678"}
Symbols == {"INTC"}
Quantities == {1}
Prices == {"10.5", "0.0"}
DryRuns == {Omitted, Passed(TRUE), Passed(FALSE)}

\* every price type, price and dry_run, passed or omitted
ManyArgs ==
    OrderArgs(Accounts, Symbols, PriceType, {BUY, SELL}, Quantities, {DAY, GT90},
              {Omitted} \cup {Passed(p) : p \in Prices}, DryRuns)

\* one limit order, with every dry_run
FewArgs ==
    OrderArgs(Accounts, Symbols, {LIMIT}, {BUY}, Quantities, {DAY},
              {Passed("10.5")}, DryRuns)

-----------------------------------------------------------------------------
(* Order: the steps of place_order *)

\* Order(ft_session): the session is one whose construction returned
OrderInit ==
    /\ opc = "idle"
    /\ order_confirmation = EmptyConfirmation
    /\ confirmation_before = EmptyConfirmation
    /\ request = <<>>
    /\ call = <<>>
    /\ response = <<>>
    /\ oerr = "none"
    /\ false_passed = FALSE
    /\ live_posted = FALSE
    /\ query = <<>>
    /\ posts = <<>>
    /\ page = <<>>
    /\ statuses = <<>>
    /\ pc = "done"
    /\ persistent_session = FALSE
    /\ store = Absent
    /\ store_before = Absent
    /\ loaded = EmptyDict
    /\ jar = EmptyJar
    /\ self_cookies = "jar"
    /\ log = <<Send(ProbeRequest("<response><status>ok</status></response>"), EmptyDict),
               Send(ProbeRequest("<response><status>ok</status></response>"), EmptyDict)>>
    /\ err = "none"

\* place_order up to the POST of the form: lines 88-130
PlaceOrder(args) ==
    /\ opc = "idle"
    /\ \E a \in args :
         LET dry_run == Default(a.dry_run, DefaultDryRun)
             price == Default(a.price, DefaultPrice)
             data == OrderForm(a.account, a.symbol, a.price_type, a.order_type,
                               a.quantity, a.duration, price, dry_run)
         IN  /\ request' = <<data>>
             /\ call' = <<a>>
             /\ false_passed' = (false_passed \/ a.dry_run = Passed(FALSE))
             /\ live_posted' = (live_posted \/ data.previewOrders = "")
    /\ opc' = "posted"
    /\ oerr' = "none"
    /\ response' = <<>>
    /\ confirmation_before' = order_confirmation
    /\ query' = <<>>
    /\ posts' = <<>>
    /\ page' = <<>>
    /\ UNCHANGED <<order_confirmation, statuses>>
    /\ UNCHANGED svars

\* faulty variant: the record is built on top of the retained one
PlaceOrderReturns_KeepsOldKeys(responses) ==
    /\ opc = "posted"
    /\ \E resp \in responses :
         LET built == BuildConfirmation(resp, Default(call[1].dry_run, DefaultDryRun))
         IN  /\ response' = <<resp>>
             /\ oerr' = built.raised
             /\ order_confirmation' =
                  IF built.raised = "none" THEN built.conf @@ order_confirmation
                  ELSE order_confirmation
    /\ opc' = "idle"
    /\ UNCHANGED <<confirmation_before, request, call, false_passed, live_posted>>
    /\ UNCHANGED qvars
    /\ UNCHANGED svars

\* faulty variant: the retained record is reset before the response is parsed
PlaceOrderReturns_ClearsOnRaise(responses) ==
    /\ opc = "posted"
    /\ \E resp \in responses :
         LET built == BuildConfirmation(resp, Default(call[1].dry_run, DefaultDryRun))
         IN  /\ response' = <<resp>>
             /\ oerr' = built.raised
             /\ order_confirmation' = built.conf
    /\ opc' = "idle"
    /\ UNCHANGED <<confirmation_before, request, call, false_passed, live_posted>>
    /\ UNCHANGED qvars
    /\ UNCHANGED svars

\* place_order from the response to its return: lines 127-161
PlaceOrderReturns(responses) ==
    /\ opc = "posted"
    /\ \E resp \in responses :
         LET built == BuildConfirmation(resp, Default(call[1].dry_run, DefaultDryRun))
         IN  /\ response' = <<resp>>
             /\ oerr' = built.raised
             /\ order_confirmation' =
                  IF built.raised = "none" THEN built.conf ELSE order_confirmation
    /\ opc' = "idle"
    /\ UNCHANGED <<confirmation_before, request, call, false_passed, live_posted>>
    /\ UNCHANGED qvars
    /\ UNCHANGED svars

\* the POST fails in the transport: the error propagates out of place_order
PlaceOrderFails ==
    /\ opc = "posted"
    /\ opc' = "idle"
    /\ oerr' = "transport"
    /\ response' = <<>>
    /\ UNCHANGED <<order_confirmation, confirmation_before, request, call,
                   false_passed, live_posted>>
    /\ UNCHANGED qvars
    /\ UNCHANGED svars

-----------------------------------------------------------------------------
(* Order: cancel_order *)

\* bodies the cancellation endpoint may answer with
CancelTexts ==
    { "<response><success>Yes</success></response>",
      "<response><success>No</success><errcode>1003</errcode></response>",
      "<a href=\"/cgi-bin/sessionfailed?reason=6\">login</a>",
      "" }

OrderIds == {"12345", ""}

\* data = {"accountId": account, "clordid": order_id}
CancelForm(account, order_id) == [accountId |-> account, clordid |-> order_id]

Post(url, data) == [method |-> "POST", url |-> url, data |-> data]

\* cancel_order up to its POST: lines 170-177
CancelOrder ==
    /\ opc = "idle"
    /\ \E account \in Accounts, order_id \in OrderIds :
         /\ query' = <<[method |-> "cancel_order", account |-> account,
                        order_id |-> order_id]>>
         /\ posts' = <<Post("cxlorder", CancelForm(account, order_id))>>
    /\ opc' = "cancelling"
    /\ oerr' = "none"
    /\ page' = <<>>
    /\ confirmation_before' = order_confirmation
    /\ UNCHANGED <<order_confirmation, request, call, response, false_passed,
                   live_posted, statuses>>
    /\ UNCHANGED svars

\* faulty variant: a body that reports a rejection raises
AfterCancel_ChecksBody(text) ==
    IF Contains(text, "<success>No</success>") THEN "rejected" ELSE "none"

\* the outcome of cancel_order once the response is there: the body is dropped
AfterCancel(text) == "none"

\* faulty variant: a cancellation drops the retained confirmation
CancelOrderReturns_ClearsConfirmation ==
    /\ opc = "cancelling"
    /\ \E text \in CancelTexts :
         /\ page' = <<text>>
         /\ oerr' = AfterCancel(text)
    /\ opc' = "idle"
    /\ order_confirmation' = EmptyConfirmation
    /\ UNCHANGED <<confirmation_before, request, call, response, false_passed,
                   live_posted, query, posts, statuses>>
    /\ UNCHANGED svars

\* cancel_order from the response to its return: lines 175-179
CancelOrderReturns ==
    /\ opc = "cancelling"
    /\ \E text \in CancelTexts :
         /\ page' = <<text>>
         /\ oerr' = AfterCancel(text)
    /\ opc' = "idle"
    /\ UNCHANGED <<order_confirmation, confirmation_before, request, call,
                   response, false_passed, live_posted, query, posts, statuses>>
    /\ UNCHANGED svars

\* the POST fails in the transport: the error propagates out of cancel_order
CancelOrderFails ==
    /\ opc = "cancelling"
    /\ opc' = "idle"
    /\ oerr' = "transport"
    /\ UNCHANGED <<order_confirmation, confirmation_before, request, call,
                   response, false_passed, live_posted, qvars>>
    /\ UNCHANGED svars

-----------------------------------------------------------------------------
(* Order: get_orders_status *)

\* The body of the status listing as BeautifulSoup(text, "lxml") presents it:
\* the <orderstatus> elements in document order, each the sequence of its
\* children, a child being a <status> block with its <input> tags or an
\* <input> outside any <status>.  An attribute an <input> lacks is <<>>.
Input(name, value) == [tag |-> "input", name |-> name, value |-> value]
Status(inputs) == [tag |-> "status", inputs |-> inputs]

MaxInputs == 2
MaxOrders == 2

\* <input> tags: two names, one of them with two values
WholeInputs ==
    { Input(<<"a">>, <<"1">>), Input(<<"a">>, <<"2">>), Input(<<"b">>, <<"2">>) }

\* <orderstatus> elements: a <status> block with every row of inputs; one
\* with an <input> before the <status>; one with a second <status>; one with
\* no <status>; one whose <input> has no value; one whose <input> has no name
OrderStatusElements ==
    { <<Status(i)>> : i \in SeqsUpTo(WholeInputs, MaxInputs) }
    \cup { <<Input(<<"c">>, <<"3">>), Status(<<Input(<<"a">>, <<"1">>)>>)>>,
           <<Status(<<Input(<<"b">>, <<"2">>)>>), Status(<<Input(<<"a">>, <<"1">>)>>)>>,
           <<>>,
           <<Status(<<Input(<<"a">>, <<>>)>>)>>,
           <<Status(<<Input(<<>>, <<"1">>)>>)>> }

StatusPages == SeqsUpTo(OrderStatusElements, MaxOrders)

\* data = {"page": "all", "accountId": str(account)}; str of a str is that str
StatusForm(account) == [page |-> "all", accountId |-> account]

\* order_status.find('status'): the first <status> among the children
RECURSIVE FindStatus(_, _)
FindStatus(children, i) ==
    IF i > Len(children) THEN <<>>
    ELSE IF children[i].tag = "status" THEN <<children[i]>>
    ELSE FindStatus(children, i + 1)

\* `for input_element in input_elements:
\*      input_dict[input_element['name']] = input_element['value']`
RECURSIVE InputDict(_, _, _)
InputDict(d, input_elements, i) ==
    IF i > Len(input_elements) THEN Built(d)
    ELSE IF input_elements[i].value = <<>> \/ input_elements[i].name = <<>>
    THEN Raised("KeyError")
    ELSE InputDict(Put(d, input_elements[i].name[1], input_elements[i].value[1]),
                   input_elements, i + 1)

\* faulty variant: an order without inputs is left out of the list
RECURSIVE Statuses_SkipsEmpty(_, _, _)
Statuses_SkipsEmpty(list, order_status_list, i) ==
    IF i > Len(order_status_list) THEN Built(list)
    ELSE
    LET status_element == FindStatus(order_status_list[i], 1)
    IN  IF status_element = <<>> THEN Raised("AttributeError")
        ELSE
        LET input_dict == InputDict(<<>>, status_element[1].inputs, 1)
        IN  IF input_dict.raised # "none" THEN input_dict
            ELSE Statuses_SkipsEmpty(
                     IF input_dict.conf = <<>> THEN list
                     ELSE Append(list, input_dict.conf),
                     order_status_list, i + 1)

\* `for order_status in order_status_list: ... statuses.append(input_dict)`
RECURSIVE Statuses(_, _, _)
Statuses(list, order_status_list, i) ==
    IF i > Len(order_status_list) THEN Built(list)
    ELSE
    LET status_element == FindStatus(order_status_list[i], 1)
    IN  IF status_element = <<>> THEN Raised("AttributeError")
        ELSE
        LET input_dict == InputDict(<<>>, status_element[1].inputs, 1)
        IN  IF input_dict.raised # "none" THEN input_dict
            ELSE Statuses(Append(list, input_dict.conf), order_status_list, i + 1)

\* get_orders_status up to its POST: lines 191-201
GetOrdersStatus ==
    /\ opc = "idle"
    /\ \E account \in Accounts :
         /\ query' = <<[method |-> "get_orders_status", account |-> account]>>
         /\ posts' = <<Post("get_xml", StatusForm(account))>>
    /\ opc' = "polling"
    /\ oerr' = "none"
    /\ page' = <<>>
    /\ confirmation_before' = order_confirmation
    /\ UNCHANGED <<order_confirmation, request, call, response, false_passed,
                   live_posted, statuses>>
    /\ UNCHANGED svars

\* get_orders_status from the response to its return: lines 195-222
GetOrdersStatusReturns(pages) ==
    /\ opc = "polling"
    /\ \E body \in pages :
         LET parsed == Statuses(<<>>, body, 1)
         IN  /\ page' = <<body>>
             /\ oerr' = parsed.raised
             /\ statuses' = IF parsed.raised = "none" THEN <<parsed.conf>> ELSE <<>>
    /\ opc' = "idle"
    /\ UNCHANGED <<order_confirmation, confirmation_before, request, call,
                   response, false_passed, live_posted, query, posts>>
    /\ UNCHANGED svars

\* the POST fails in the transport: the error propagates out of the call
GetOrdersStatusFails ==
    /\ opc = "polling"
    /\ opc' = "idle"
    /\ oerr' = "transport"
    /\ statuses' = <<>>
    /\ UNCHANGED <<order_confirmation, confirmation_before, request, call,
                   response, false_passed, live_posted, query, posts, page>>
    /\ UNCHANGED svars

-----------------------------------------------------------------------------
(* The specifications *)

\* FTSession(...) against every answer of the server
SessionNext ==
    \/ Construct
    \/ Load
    \/ Probe
    \/ LoginPage
    \/ LoginPost
    \/ PinPost
    \/ Reprobe
    \/ ProbeFails
    \/ LoginPageFails
    \/ LoginPostFails
    \/ PinPostFails
    \/ ReprobeFails

SessionSpec == SessionInit /\ [][SessionNext]_vars

\* place_order with every argument
PlaceOrderMany == PlaceOrder(ManyArgs)
ReturnsFew == PlaceOrderReturns(FewResponses)

OrderNext ==
    \/ PlaceOrderMany
    \/ ReturnsFew
    \/ PlaceOrderFails

OrderSpec == OrderInit /\ [][OrderNext]_vars

\* place_order against every response
PlaceOrderFew == PlaceOrder(FewArgs)
ReturnsMany == PlaceOrderReturns(Responses)

ResponseNext ==
    \/ PlaceOrderFew
    \/ ReturnsMany
    \/ PlaceOrderFails

ResponseSpec == OrderInit /\ [][ResponseNext]_vars

\* cancel_order and get_orders_status against every response
StatusReturnsMany == GetOrdersStatusReturns(StatusPages)

QueryNext ==
    \/ CancelOrder
    \/ CancelOrderReturns
    \/ CancelOrderFails
    \/ GetOrdersStatus
    \/ StatusReturnsMany
    \/ GetOrdersStatusFails

QuerySpec == OrderInit /\ [][QueryNext]_vars

\* place_order, cancel_order and get_orders_status in any order
FewPages ==
    { <<>>, << <<Status(<<Input(<<"a">>, <<"1">>)>>)>>, <<Status(<<>>)>> >>, << <<>> >> }
StatusReturnsFew == GetOrdersStatusReturns(FewPages)

LifecycleNext ==
    \/ PlaceOrderFew
    \/ ReturnsFew
    \/ PlaceOrderFails
    \/ CancelOrder
    \/ CancelOrderReturns
    \/ CancelOrderFails
    \/ GetOrdersStatus
    \/ StatusReturnsFew
    \/ GetOrdersStatusFails

LifecycleSpec == OrderInit /\ [][LifecycleNext]_vars

-----------------------------------------------------------------------------
(* Properties of FTSession, checked under SessionSpec *)

\* the marker occurs somewhere in the body
ShowsSentinel(text) ==
    \E i \in 1..(Len(text) - Len(Sentinel) + 1) :
        SubSeq(text, i, i + Len(Sentinel) - 1) = Sentinel

\* the first probe of the running call was answered, with or without the marker
FirstProbeAnswered == Len(log) >= 1 /\ log[1].text # Unread
FirstProbeClean == FirstProbeAnswered /\ ~ShowsSentinel(log[1].text)
FirstProbeFailed == FirstProbeAnswered /\ ShowsSentinel(log[1].text)

IsLoginStep(x) == x.url \in {"login", "pin"}
LoginPosted == \E i \in 1..Len(log) : log[i].method = "POST" /\ log[i].url = "login"
PinPosted == \E i \in 1..Len(log) : log[i].method = "POST" /\ log[i].url = "pin"

\* the requests of a fresh login, in order
FreshLoginSteps ==
    << <<"GET", "get_xml">>, <<"GET", "login">>, <<"POST", "login">>,
       <<"POST", "pin">>, <<"GET", "get_xml">> >>

\* C1: in a call whose first probe comes back without the sentinel, no request
\* goes to the login page, the login endpoint or the PIN endpoint.
C1_ReuseIssuesNoLogin ==
    FirstProbeClean => \A i \in 1..Len(log) : ~IsLoginStep(log[i])

\* a cookie-reuse call that returned: two probes and nothing else
C1_Witness ==
    /\ pc = "done"
    /\ FirstProbeClean
    /\ Len(log) = 2

\* C2: in a call whose first probe comes back with the sentinel, the requests
\* are, in this order and once each, the probe, the GET of the login page, the
\* login POST, the PIN POST and the re-probe; a call that ran to its return or
\* to the authentication error issued all five.
C2_FreshLoginOrder ==
    FirstProbeFailed =>
        /\ Len(log) <= Len(FreshLoginSteps)
        /\ \A i \in 1..Len(log) : <<log[i].method, log[i].url>> = FreshLoginSteps[i]
        /\ (pc = "done" \/ err = "auth") => Len(log) = Len(FreshLoginSteps)

\* a fresh login that returned
C2_Witness ==
    /\ pc = "done"
    /\ FirstProbeFailed
    /\ Len(log) = 5

\* C3: a fresh login whose re-probe still shows the sentinel raises and leaves
\* cookies.pkl as it was when the call started.
C3_FailedLoginPersistsNothing ==
    (FirstProbeFailed /\ err = "auth") => store = store_before

\* C4: the authentication error is raised only by a call that posted the login
\* form and the PIN; a call whose first probe is clean does not raise it.
C4_AuthErrorOnlyAfterFreshLogin ==
    err = "auth" => (LoginPosted /\ PinPosted /\ ~FirstProbeClean)

\* the last probe the running call issued
LastProbe ==
    LET probes == {i \in 1..Len(log) : log[i].url = "get_xml"}
    IN  log[CHOOSE i \in probes : \A k \in probes : k <= i]

\* C5: a construction returns to its caller only if the last probe login
\* issued was answered without the sentinel.
C5_ReturnsOnlyIfLastProbeClean ==
    pc = "done" =>
        /\ Len(log) >= 1
        /\ log[Len(log)].url = "get_xml"
        /\ LastProbe.text # Unread
        /\ ~ShowsSentinel(LastProbe.text)

\* a first probe with the sentinel, a fresh login, a clean re-probe, a return
C5_Witness ==
    /\ pc = "done"
    /\ FirstProbeFailed
    /\ ~ShowsSentinel(LastProbe.text)
    /\ LoginPosted /\ PinPosted

\* C14: whether cookies.pkl is absent or corrupt, load_cookies gives the
\* empty mapping and the call goes on to the first probe; loading never ends
\* the call with an exception.
C14_LoadNeverFatal ==
    (store_before \in {Absent, Corrupt} /\ pc \notin {"new", "load"}) =>
        /\ loaded = EmptyDict
        /\ err # "unpickle"

\* C15: cookies.pkl differs from what it was when the call started only in a
\* call with persistent_session set whose first probe showed the sentinel and
\* which posted the login form and the PIN; it is as it was in every call
\* without the flag and in every call whose first probe was clean.
C15_StoreWrittenOnlyByFreshLogin ==
    /\ store # store_before =>
          (persistent_session /\ FirstProbeFailed /\ LoginPosted /\ PinPosted)
    /\ ~persistent_session => store = store_before
    /\ FirstProbeClean => store = store_before

\* a call with the flag set has returned on the cookie-reuse path with a jar
\* whose saving would have changed the file, and a fresh login without the
\* flag likewise
C15_Witness ==
    /\ pc = "done"
    /\ store = store_before
    /\ SaveCookies(jar) # store
    /\ \/ persistent_session /\ FirstProbeClean
       \/ ~persistent_session /\ FirstProbeFailed /\ PinPosted

\* the cookies the responses of the first n exchanges have set, a later
\* response's value replacing an earlier one's
RECURSIVE SetBy(_, _)
SetBy(exchanges, n) ==
    IF n = 0 THEN EmptyDict ELSE Update(SetBy(exchanges, n - 1), exchanges[n].set)

\* C17: the re-probe of a fresh login goes out with the session's jar as it
\* is after the PIN POST: the loaded cookies and, with them, every cookie the
\* probe, the login page, the login POST and the PIN POST have set; not with
\* the loaded cookies alone.
C17_ReprobeCarriesSessionJar ==
    (FirstProbeFailed /\ Len(log) = Len(FreshLoginSteps)) =>
        log[5].sent = [local |-> loaded, site |-> SetBy(log, 4)]

\* cookies were loaded, the PIN POST set another value, and the re-probe of
\* the call that has returned carried that value
C17_Witness ==
    /\ pc = "done"
    /\ FirstProbeFailed
    /\ Len(log) = Len(FreshLoginSteps)
    /\ loaded["sid"] = "a"
    /\ log[4].set["sid"] = "b"
    /\ log[5].sent.site["sid"] = "b"

-----------------------------------------------------------------------------
(* Properties of Order.place_order's form, checked under OrderSpec *)

\* the last place_order call has returned normally
CallEnded == opc = "idle" /\ call # <<>> /\ response # <<>> /\ oerr = "none"

\* C6: the form carries previewOrders = "1" when dry_run is True or omitted
\* and an empty previewOrders only when dry_run is False; as long as no call
\* has passed dry_run=False, no form has gone out without the preview flag.
C6_PreviewUnlessDryRunFalse ==
    /\ request # <<>> =>
          request[1].previewOrders =
              (IF call[1].dry_run = Passed(FALSE) THEN "" ELSE "1")
    /\ live_posted => false_passed

\* a call that omitted dry_run has ended; its form went out as a preview
C6_Witness ==
    /\ CallEnded
    /\ call[1].dry_run = Omitted
    /\ request[1].previewOrders = "1"
    /\ ~live_posted

\* C7: a MARKET order's form has an empty limitPrice whatever price was
\* passed; any other price type's form has the price of the call (the
\* signature's 0.00 when the caller passed none).
C7_MarketClearsLimitPrice ==
    request # <<>> =>
        /\ request[1].priceType = call[1].price_type
        /\ call[1].price_type = MARKET => request[1].limitPrice = ""
        /\ call[1].price_type # MARKET =>
              request[1].limitPrice =
                  (IF call[1].price = Omitted THEN "0.0" ELSE call[1].price[1])

\* a MARKET call that passed a price has ended
C7_Witness ==
    /\ CallEnded
    /\ call[1].price_type = MARKET
    /\ call[1].price = Passed("10.5")
    /\ request[1].limitPrice = ""

-----------------------------------------------------------------------------
(* Properties of Order.place_order's parsing, checked under ResponseSpec *)

\* s without its leading and trailing whitespace
Trimmed(s) ==
    LET inked == {i \in 1..Len(s) : SubSeq(s, i, i) \notin Whitespace}
    IN  IF inked = {} THEN ""
        ELSE SubSeq(s, CHOOSE i \in inked : \A k \in inked : i <= k,
                       CHOOSE i \in inked : \A k \in inked : k <= i)

\* the last place_order call returned normally, having parsed `response`
Returned == opc = "idle" /\ query = <<>> /\ response # <<>> /\ oerr = "none"
SuccessText == response[1].success[1]
ActionText == response[1].actiondata[1]
ErrcodeText == response[1].errcode[1]
DryRun == call[1].dry_run # Passed(FALSE)

\* C8 as stated: with <success> text "No" and <actiondata> text T, the record
\* is exactly {success: "No", actiondata: T, errcode: the <errcode> text}.
C8_RejectedRecordVerbatim ==
    (Returned /\ SuccessText = "No") =>
        order_confirmation =
            [success |-> "No", actiondata |-> ActionText, errcode |-> ErrcodeText]

\* C8, amended: with <success> text "No" up to surrounding whitespace, the
\* record is exactly {success: "No", actiondata: T stripped, errcode: the
\* <errcode> text stripped}: no orderid, no key from a table in T.
C8_RejectedRecord ==
    (Returned /\ Trimmed(SuccessText) = "No") =>
        order_confirmation =
            [success |-> "No", actiondata |-> Trimmed(ActionText),
             errcode |-> Trimmed(ErrcodeText)]

\* a rejection whose text is padded and holds a table and both markers
C8_Witness ==
    /\ Returned
    /\ SuccessText = "No"
    /\ ActionText = " " \o PlainText \o "\n"
    /\ order_confirmation =
           [success |-> "No", actiondata |-> PlainText, errcode |-> "0"]

\* the action text embeds the table of header row h with a full data row
EmbedsTable(h) ==
    \E p \in Pads, m \in Markers :
        ActionText = p[1] \o Table(h, Len(h)) \o m \o p[2]

Cells(h) == {h[i] : i \in 1..Len(h)}
HeaderRows == SeqsUpTo(HeaderNames, MaxCells)
AcceptedReturn == Returned /\ Trimmed(SuccessText) # "No"

\* C9 as stated: with <success> text other than "No", every header h[i] maps
\* to the data cell d[i], and the keys are the headers, success, orderid and
\* errcode.
C9_EveryHeaderToItsCell ==
    (Returned /\ SuccessText # "No") =>
        \A h \in HeaderRows :
            EmbedsTable(h) =>
                /\ DOMAIN order_confirmation
                       = Cells(h) \cup {"success", "orderid", "errcode"}
                /\ \A i \in 1..Len(h) : order_confirmation[h[i]] = CellValues[i]

\* C9, amended: with <success> text other than "No" once stripped, the
\* record is what assigning success, then h[0] -> d[0], ...,
\* h[n-1] -> d[n-1], then orderid, then errcode leaves: h[i] maps to d[i]
\* unless the header recurs later in the row or is "orderid" or "errcode",
\* success keeps the <success> text unless a header is "success", and the
\* keys are the headers, success, orderid and errcode.
C9_PositionalPairing ==
    AcceptedReturn =>
        \A h \in HeaderRows :
            EmbedsTable(h) =>
                /\ DOMAIN order_confirmation
                       = Cells(h) \cup {"success", "orderid", "errcode"}
                /\ \A i \in 1..Len(h) :
                      (/\ \A k \in (i + 1)..Len(h) : h[k] # h[i]
                       /\ h[i] \notin {"orderid", "errcode"})
                      => order_confirmation[h[i]] = CellValues[i]
                /\ "success" \notin Cells(h)
                      => order_confirmation["success"] = Trimmed(SuccessText)
                /\ order_confirmation["errcode"] = Trimmed(ErrcodeText)

\* the accepted live order of the two-column table
C9_Witness ==
    /\ Returned
    /\ SuccessText = "Yes"
    /\ ~DryRun
    /\ ActionText = PlainText
    /\ order_confirmation =
           [success |-> "Yes", H1 |-> "V1", H2 |-> "V2", orderid |-> "12345",
            errcode |-> "0"]

\* the offsets (from 1) at which sub occurs in s, at or after `from`
Occurrences(s, sub, from) ==
    {i \in from..(Len(s) - Len(sub) + 1) : SubSeq(s, i, i + Len(sub) - 1) = sub}
Least(S) == CHOOSE i \in S : \A k \in S : i <= k

\* the marker occurs in s and the terminator occurs after its first occurrence
Marked(s, marker, terminator) ==
    /\ Occurrences(s, marker, 1) # {}
    /\ Occurrences(s, terminator, Least(Occurrences(s, marker, 1)) + Len(marker)) # {}

\* the text from the end of the first marker to the next terminator
TextBetween(s, marker, terminator) ==
    LET from == Least(Occurrences(s, marker, 1)) + Len(marker)
    IN  SubSeq(s, from, Least(Occurrences(s, terminator, from)) - 1)

\* C10: for an accepted response, a live call takes orderid from between the
\* first "Your order reference number is: " and the next "</div>", a preview
\* call from between the first 'id="' and the next '" style=', each whether or
\* not the other mode's marker occurs too.
C10_OrderIdByMode ==
    AcceptedReturn =>
        /\ (~DryRun /\ Marked(ActionText, RefMarker, RefEnd))
              => order_confirmation["orderid"]
                     = TextBetween(ActionText, RefMarker, RefEnd)
        /\ (DryRun /\ Marked(ActionText, IdMarker, IdEnd))
              => order_confirmation["orderid"]
                     = TextBetween(ActionText, IdMarker, IdEnd)

\* a live order whose text has the preview marker before the live one
C10_Witness ==
    /\ AcceptedReturn
    /\ ~DryRun
    /\ ActionText = IdFragment \o RefFragment
    /\ order_confirmation["orderid"] = "12345"

-----------------------------------------------------------------------------
(* Properties of the retained confirmation, checked under ResponseSpec *)

\* the header names that occur as a <th> cell in s
HeadersIn(s) == {k \in HeaderNames : Occurrences(s, Cell("th", k), 1) # {}}

\* the keys of a record built from the response just parsed alone
FreshKeys ==
    IF Trimmed(SuccessText) = "No"
    THEN {"success", "actiondata", "errcode"}
    ELSE HeadersIn(ActionText) \cup {"success", "orderid", "errcode"}

\* the retained record is the one of the response just parsed: its keys are
\* that response's, and success, actiondata and errcode hold its texts
FreshRecord ==
    /\ DOMAIN order_confirmation = FreshKeys
    /\ order_confirmation["errcode"] = Trimmed(ErrcodeText)
    /\ "success" \notin HeadersIn(ActionText) \/ Trimmed(SuccessText) = "No"
          => order_confirmation["success"] = Trimmed(SuccessText)
    /\ Trimmed(SuccessText) = "No"
          => order_confirmation["actiondata"] = Trimmed(ActionText)

\* C11: after a place_order call that returned normally order_confirmation
\* is the record of that call's response, with no key of the record retained
\* before; while a call runs and after a call that raised it is still what it
\* was when the call began.  So after any sequence of calls the slot holds
\* the record of the most recent call that returned normally.
C11_AtMostOneRetained ==
    /\ Returned => FreshRecord
    /\ ~Returned => order_confirmation = confirmation_before

\* an acceptance right after a rejection, and a rejection right after an
\* acceptance
C11_Witness ==
    /\ Returned
    /\ \/ /\ "actiondata" \in DOMAIN confirmation_before
          /\ "orderid" \in DOMAIN order_confirmation
          /\ "actiondata" \notin DOMAIN order_confirmation
       \/ /\ "orderid" \in DOMAIN confirmation_before
          /\ "H1" \in DOMAIN confirmation_before
          /\ DOMAIN order_confirmation = {"success", "actiondata", "errcode"}

\* the last place_order call has parsed a response that lacks one of the tags
TagMissing ==
    /\ opc = "idle"
    /\ query = <<>>
    /\ response # <<>>
    /\ NoTag \in {response[1].success, response[1].actiondata, response[1].errcode}

\* C16: a place_order call whose response lacks <success>, <actiondata> or
\* <errcode> has ended with a lookup failure (AttributeError on the missing
\* tag, or the IndexError of a short data row met before it) and the retained
\* confirmation is the one from before the call, not a partial record.
C16_MissingTagRaises ==
    TagMissing =>
        /\ oerr \in {"AttributeError", "IndexError"}
        /\ order_confirmation = confirmation_before

\* an accepted response without <errcode>, parsed after an earlier rejection
C16_Witness ==
    /\ TagMissing
    /\ response[1].success = Tag("Yes")
    /\ response[1].actiondata = Tag(PlainText)
    /\ response[1].errcode = NoTag
    /\ oerr = "AttributeError"
    /\ "actiondata" \in DOMAIN order_confirmation

\* C18 as stated: a <success> text other than "No" is stored unmodified under
\* success and gives an orderid key and no actiondata key; the text "No"
\* gives an actiondata key and no orderid key.
C18_BranchOnRawText ==
    Returned =>
        /\ SuccessText # "No" =>
              /\ order_confirmation["success"] = SuccessText
              /\ "orderid" \in DOMAIN order_confirmation
              /\ "actiondata" \notin DOMAIN order_confirmation
        /\ SuccessText = "No" =>
              /\ "actiondata" \in DOMAIN order_confirmation
              /\ "orderid" \notin DOMAIN order_confirmation

\* C18, amended: the branch is decided by the stripped <success> text alone.
\* Any stripped text other than "No" is stored under success (unless a table
\* header named success replaces it) and gives an orderid key and, unless a
\* table header is named actiondata, no actiondata key; a text that strips to
\* "No" gives success "No", an actiondata key and no orderid key.
C18_BranchOnStrippedText ==
    Returned =>
        /\ Trimmed(SuccessText) # "No" =>
              /\ "success" \notin HeadersIn(ActionText)
                    => order_confirmation["success"] = Trimmed(SuccessText)
              /\ "orderid" \in DOMAIN order_confirmation
              /\ "actiondata" \notin HeadersIn(ActionText)
                    => "actiondata" \notin DOMAIN order_confirmation
        /\ Trimmed(SuccessText) = "No" =>
              /\ order_confirmation["success"] = "No"
              /\ "actiondata" \in DOMAIN order_confirmation
              /\ "orderid" \notin DOMAIN order_confirmation

\* the tokens "no" and "" have taken the accepted branch
C18_Witness ==
    /\ Returned
    /\ SuccessText \in {"no", ""}
    /\ order_confirmation["success"] = SuccessText
    /\ "orderid" \in DOMAIN order_confirmation
    /\ "actiondata" \notin DOMAIN order_confirmation

\* C19: a step by which place_order ends with an exception (the transport's, a
\* missing tag's, a short data row's) leaves order_confirmation as it is.
C19_RaisingCallKeepsConfirmation ==
    [][ (opc = "posted" /\ opc' = "idle" /\ oerr' # "none")
            => order_confirmation' = order_confirmation ]_vars

\* a call that met more header cells than data cells has raised, with the
\* record of an earlier accepted order still retained
C19_Witness ==
    /\ opc = "idle"
    /\ query = <<>>
    /\ oerr = "IndexError"
    /\ "orderid" \in DOMAIN order_confirmation
    /\ order_confirmation = confirmation_before

-----------------------------------------------------------------------------
(* Properties of cancel_order and get_orders_status, checked under QuerySpec *)

\* the last call was cancel_order
CancelCalled == query # <<>> /\ query[1].method = "cancel_order"

\* C13: cancel_order issues one POST, to the cancellation endpoint, with the
\* accountId and clordid of the call; once the response is there the call has
\* returned normally, whatever the body; the only error a cancellation ends
\* with is the transport's.
C13_CancelNeverReportsFailure ==
    CancelCalled =>
        /\ posts = <<Post("cxlorder", [accountId |-> query[1].account,
                                       clordid |-> query[1].order_id])>>
        /\ page # <<>> => (opc = "idle" /\ oerr = "none")
        /\ oerr \in {"none", "transport"}

\* a cancellation answered with a rejection has returned normally
C13_Witness ==
    /\ CancelCalled
    /\ opc = "idle"
    /\ page = <<"<response><success>No</success><errcode>1003</errcode></response>">>
    /\ oerr = "none"

\* the last call was get_orders_status and it returned its list
StatusReturned ==
    /\ opc = "idle"
    /\ query # <<>>
    /\ query[1].method = "get_orders_status"
    /\ page # <<>>
    /\ oerr = "none"

\* the inputs of the first <status> block of an <orderstatus> element
StatusInputs(element) ==
    LET first == CHOOSE i \in 1..Len(element) :
                    /\ element[i].tag = "status"
                    /\ \A k \in 1..(i - 1) : element[k].tag # "status"
    IN  element[first].inputs

Names(inputs) == {inputs[k].name[1] : k \in 1..Len(inputs)}

\* C12 as stated: one mapping per <orderstatus> in document order, each with
\* the name -> value pair of every <input> of the element's <status> block,
\* the empty mapping for a block without <input>.
C12_EveryInputPair ==
    StatusReturned =>
        /\ Len(statuses[1]) = Len(page[1])
        /\ \A i \in 1..Len(page[1]) :
              LET inputs == StatusInputs(page[1][i])
              IN  /\ DOMAIN statuses[1][i] = Names(inputs)
                  /\ \A k \in 1..Len(inputs) :
                        statuses[1][i][inputs[k].name[1]] = inputs[k].value[1]

\* C12, amended: one mapping per <orderstatus> in document order, whose keys
\* are the names of the <input> tags of the element's <status> block, each
\* name with the value of the last <input> of that name; the empty mapping
\* for a block without <input>.
C12_OneMappingPerOrder ==
    StatusReturned =>
        /\ Len(statuses[1]) = Len(page[1])
        /\ \A i \in 1..Len(page[1]) :
              LET inputs == StatusInputs(page[1][i])
              IN  /\ DOMAIN statuses[1][i] = Names(inputs)
                  /\ \A k \in 1..Len(inputs) :
                        (\A l \in (k + 1)..Len(inputs) :
                             inputs[l].name # inputs[k].name)
                        => statuses[1][i][inputs[k].name[1]] = inputs[k].value[1]
                  /\ inputs = <<>> => statuses[1][i] = <<>>

\* two orders, the first with the input a = "1", the second with none
C12_Witness ==
    /\ StatusReturned
    /\ page[1] = << <<Status(<<Input(<<"a">>, <<"1">>)>>)>>, <<Status(<<>>)>> >>
    /\ statuses[1] = << ("a" :> "1"), <<>> >>

-----------------------------------------------------------------------------
(* Properties of the three methods together, checked under LifecycleSpec *)

\* C20: while cancel_order or get_orders_status runs, and after it has ended
\* by a return or by an exception, order_confirmation is what it was when the
\* call began: among the three methods only place_order changes it.
C20_QueriesKeepConfirmation ==
    query # <<>> => order_confirmation = confirmation_before

\* an accepted order's record is still retained after a cancellation and
\* after a status query that returned
C20_Witness ==
    /\ opc = "idle"
    /\ query # <<>>
    /\ page # <<>>
    /\ oerr = "none"
    /\ statuses # <<>>
    /\ "orderid" \in DOMAIN order_confirmation
    /\ order_confirmation = confirmation_before

=============================================================================
